---- MODULE Spec2Model ----
(***************************************************************************)
(* A2CPolicy (a2c_policy.py): the TensorFlow graph built by __init__ and   *)
(* the six facade closures that run it (reset, actor, critic, step, train, *)
(* summarize).                                                             *)
(*                                                                         *)
(* Numbers.  Observations, targets and kernels are integers.  Each kernel  *)
(* matrix is represented by one integer coefficient and each observation   *)
(* by one integer; biases and the batch-normalisation scale/offset are not *)
(* represented.  Losses are exact fractions [num, den].  Moving averages   *)
(* are fixed-point numbers in hundredths.  Bounded actions are fixed-point *)
(* numbers in quarters.  Gradients are integers in units of 1/GradUnit; a  *)
(* clipped gradient keeps its raw value together with the square of the    *)
(* factor it was multiplied by, so that no square root is ever rounded.    *)
(*                                                                         *)
(* Shapes.  A tensor of shape [n] is a sequence of length n, a tensor of   *)
(* shape [n, 1] is a sequence of length n too; where the code combines the *)
(* two the broadcasting rule of the shapes is applied explicitly.          *)
(***************************************************************************)
EXTENDS Integers, Sequences, FiniteSets, TLC

VARIABLES
  discrete,     \* isinstance(act_space, gym.spaces.Discrete)
  cnn,          \* the cnn constructor argument
  act_space,    \* [n |-> k] (Discrete) or [low |-> <<..>>, high |-> <<..>>] (Box)
  kernel,       \* trainable kernels: kernel name -> coefficient
  moving_mean,  \* batch-normalisation running statistics: layer -> hundredths
  global_step,  \* tf.train.get_or_create_global_step()
  pc,           \* position inside sess.run: "idle", or the stateful op that runs next
  call,         \* the facade call in flight: [op, feed, fetches, args, todo, ran, out]
  ret,          \* what the last completed facade call returned or raised
  train_calls,  \* train calls that returned normally since the last reset
  stat_updates  \* training-mode runs of the update ops since the last reset

vars == <<discrete, cnn, act_space, kernel, moving_mean, global_step, pc, call,
          ret, train_calls, stat_updates>>

params == <<kernel, moving_mean, global_step>>

(***************************************************************************)
(* Bounds of the model.                                                    *)
(***************************************************************************)
MaxN == 3         \* length of a full batch fed to a placeholder
MaxAligned == 2   \* longest batch whose contents are enumerated
MaxSteps == 2     \* global_step and stat_updates are not advanced beyond this
MaxObs == 1       \* observations are 0..MaxObs
MaxTarget == 1    \* returns and values are 0..MaxTarget
MaxGrad == 2      \* raw gradient components are -1, 0 or MaxGrad (units 1/GradUnit)
MaxSample == 2    \* dist.sample() is -MaxSample..MaxSample, in halves
MaxBound == 2     \* Box bounds: low in -1..0, high in 1..MaxBound
GradUnit == 4     \* a raw gradient component g stands for g/GradUnit

(***************************************************************************)
(* Small arithmetic helpers.                                               *)
(***************************************************************************)
Max(a, b) == IF a >= b THEN a ELSE b
Min(a, b) == IF a <= b THEN a ELSE b
Sgn(x) == IF x > 0 THEN 1 ELSE IF x < 0 THEN -1 ELSE 0
Clamp(x, lo, hi) == Max(lo, Min(hi, x))

RECURSIVE SumSeq(_)
SumSeq(s) == IF s = <<>> THEN 0 ELSE Head(s) + SumSeq(Tail(s))

RECURSIVE SumOver(_, _)
SumOver(S, f) ==
  IF S = {} THEN 0
  ELSE LET x == CHOOSE y \in S : TRUE IN f[x] + SumOver(S \ {x}, f)

\* fractions [num, den], den > 0
RatEq(a, b) == a.num * b.den = b.num * a.den
RatLeq(a, b) == a.num * b.den <= b.num * a.den
RatAdd(a, b) == IF a.den = b.den THEN [num |-> a.num + b.num, den |-> a.den]
                ELSE [num |-> a.num * b.den + b.num * a.den, den |-> a.den * b.den]

RECURSIVE RatSum(_)
RatSum(s) == IF s = <<>> THEN [num |-> 0, den |-> 1]
             ELSE RatAdd(Head(s), RatSum(Tail(s)))

NoCall == [op |-> "none"]

(***************************************************************************)
(* The graph built by __init__.                                            *)
(***************************************************************************)
Relu(x) == Max(x, 0)
Tanh(x) == Clamp(x, -1, 1)          \* tf.nn.tanh rounded to the integer grid

Activation(name, x) == IF name = "tanh" THEN Tanh(x)
                       ELSE IF name = "relu" THEN Relu(x) ELSE x

\* _build_mlp: n_layers = 2 dense layers (tanh), each followed by batch
\* normalisation.
build_mlp ==
  << [kind |-> "dense", name |-> "dense_0", activation |-> "tanh"],
     [kind |-> "bn", name |-> "bn_0"],
     [kind |-> "dense", name |-> "dense_1", activation |-> "tanh"],
     [kind |-> "bn", name |-> "bn_1"] >>

\* _build_cnn: input batch norm, two convolutions and one dense layer (relu),
\* each followed by batch normalisation.
build_cnn ==
  << [kind |-> "bn", name |-> "bn_in"],
     [kind |-> "conv", name |-> "conv_1", activation |-> "relu"],
     [kind |-> "bn", name |-> "bn_1"],
     [kind |-> "conv", name |-> "conv_2", activation |-> "relu"],
     [kind |-> "bn", name |-> "bn_2"],
     [kind |-> "dense", name |-> "conv_fc", activation |-> "relu"],
     [kind |-> "bn", name |-> "bn_out"] >>

TrunkLayers(c) == IF c THEN build_cnn ELSE build_mlp

LayerNames(layers, kinds) ==
  {layers[i].name : i \in {j \in DOMAIN layers : layers[j].kind \in kinds}}

TrunkKernels(c) == LayerNames(TrunkLayers(c), {"dense", "conv"})
BatchNormLayers(c) == LayerNames(TrunkLayers(c), {"bn"})

\* the actor head: act_logits (discrete) or mean (continuous)
ActorKernel(d) == IF d THEN "act_logits" ELSE "mean"

\* every dense and convolution kernel of the network
Kernels(d, c) == TrunkKernels(c) \cup {ActorKernel(d), "critic_pred"}

\* the layers built with kernel_regularizer=tf.nn.l2_loss: every trunk layer,
\* act_logits and critic_pred; the mean layer is built without one
RegularizedKernels(d, c) ==
  TrunkKernels(c) \cup {"critic_pred"} \cup (IF d THEN {"act_logits"} ELSE {})

\* act_dim = act_space.n if discrete else act_space.shape[0]
act_dim == IF discrete THEN act_space.n ELSE Len(act_space.low)

\* the mean of a batch, in hundredths
BatchMean(x) == (100 * SumSeq(x)) \div Len(x)

\* tf.layers.batch_normalization(training=is_training): batch statistics when
\* training, the running statistics otherwise.  means collects the batch mean
\* seen by every batch-normalisation layer, which its update op consumes.
RECURSIVE Trunk(_, _, _, _)
Trunk(layers, x, training, means) ==
  IF layers = <<>> THEN [hidden |-> x, means |-> means]
  ELSE LET l == Head(layers) IN
    IF l.kind = "bn"
    THEN LET m == BatchMean(x)
             centre == (IF training THEN m ELSE moving_mean[l.name]) \div 100
         IN Trunk(Tail(layers), [i \in DOMAIN x |-> x[i] - centre], training,
                  [n \in DOMAIN means \cup {l.name} |->
                     IF n = l.name THEN m ELSE means[n]])
    ELSE Trunk(Tail(layers),
               [i \in DOMAIN x |-> Activation(l.activation, kernel[l.name] * x[i])],
               training, means)

EmptyMeans == [n \in {} |-> 0]

hidden(obs, is_training) == Trunk(TrunkLayers(cnn), obs, is_training, EmptyMeans).hidden
batch_means(obs) == Trunk(TrunkLayers(cnn), obs, TRUE, EmptyMeans).means

\* critic_pred = tf.layers.dense(hidden, units=1): shape [N, 1]
critic_pred(obs, is_training) ==
  LET h == hidden(obs, is_training)
  IN [i \in DOMAIN h |-> kernel["critic_pred"] * h[i]]

\* act_logits = tf.layers.dense(hidden, units=act_dim, activation=relu); unit a
\* of the kernel carries the coefficient times (a + 1)
act_logits(h) == [a \in 0 .. (act_dim - 1) |-> Relu(kernel["act_logits"] * h * (a + 1))]

\* act_mean = tf.layers.dense(hidden, units=act_dim, activation=None)
act_mean(h) == [d \in 1 .. act_dim |-> kernel["mean"] * h]

MaxOf(f) == CHOOSE m \in {f[a] : a \in DOMAIN f} : \A a \in DOMAIN f : f[a] <= m

\* dist.log_prob(act) for one sample.  Categorical: logit of the action minus
\* the log-partition, the latter rounded to the largest logit.  Gaussian: the
\* negated squared distance to the mean (scale and constant dropped).
LogProbOne(h, a) ==
  IF discrete
  THEN act_logits(h)[a] - MaxOf(act_logits(h))
  ELSE - SumOver(1 .. act_dim, [d \in 1 .. act_dim |->
                   (a[d] - act_mean(h)[d]) * (a[d] - act_mean(h)[d])])

\* numpy / TensorFlow broadcasting of a leading dimension
Broadcastable(n, m) == n = m \/ n = 1 \/ m = 1
BroadcastLen(n, m) == Max(n, m)
At(s, i) == IF Len(s) = 1 THEN s[1] ELSE s[i]

\* log_prob = dist.log_prob(act): shape [N]
log_prob(obs, act, is_training) ==
  LET h == hidden(obs, is_training)
  IN [j \in 1 .. BroadcastLen(Len(h), Len(act)) |-> LogProbOne(At(h, j), At(act, j))]

\* actor_pg_loss = tf.reduce_mean(-log_prob * normalised_adv): log_prob has
\* shape [L] and adv has shape [M, 1], so the product has shape [M, L] and the
\* mean runs over all M * L entries.
actor_pg_loss(lp, adv) ==
  [num |-> SumSeq([i \in 1 .. Len(adv) |->
                     SumSeq([j \in 1 .. Len(lp) |-> (- lp[j]) * adv[i]])]),
   den |-> Len(adv) * Len(lp)]

\* critic_loss = tf.reduce_mean(tf.square(critic_pred - normalised_val)) / 2:
\* both operands have shape [., 1]
critic_loss(pred, val) ==
  LET K == BroadcastLen(Len(pred), Len(val))
  IN [num |-> SumSeq([k \in 1 .. K |->
                        (At(pred, k) - At(val, k)) * (At(pred, k) - At(val, k))]),
      den |-> 2 * K]

\* reg_coeff = 1e-6 = RegCoeffNum / RegCoeffDen
RegCoeffNum == 1
RegCoeffDen == 1000000

\* tf.nn.l2_loss(t) = sum(t ** 2) / 2, here times two
l2_loss_twice(t) == t * t

\* reg_loss = tf.losses.get_regularization_loss() * reg_coeff: the sum of the
\* penalties the layers registered
reg_loss ==
  [num |-> RegCoeffNum * SumOver(RegularizedKernels(discrete, cnn),
                                 [k \in RegularizedKernels(discrete, cnn) |->
                                    l2_loss_twice(kernel[k])]),
   den |-> 2 * RegCoeffDen]

\* the graph cannot evaluate log_prob or critic_loss when the leading
\* dimensions of their operands do not broadcast
GraphShapeError(feed) ==
  \/ ~ Broadcastable(Len(feed.obs), Len(feed.act))
  \/ ~ Broadcastable(Len(feed.obs), Len(feed.val))

\* _clip_by_global_norm(grads_and_vars, norm=0.5) = ClipNum / ClipDen
ClipNum == 1
ClipDen == 2

SumSquares(grads) == SumOver(DOMAIN grads, [v \in DOMAIN grads |-> grads[v] * grads[v]])

\* the square of the raw global norm
GlobalNormSq(grads) == [num |-> SumSquares(grads), den |-> GradUnit * GradUnit]

ClipSq == [num |-> ClipNum * ClipNum, den |-> ClipDen * ClipDen]

One == [num |-> 1, den |-> 1]

\* variant: every gradient clipped by its own norm (tf.clip_by_norm)
clip_by_own_norm(grads) ==
  [v \in DOMAIN grads |->
     [g |-> grads[v],
      scale_sq |-> IF RatLeq([num |-> grads[v] * grads[v], den |-> GradUnit * GradUnit], ClipSq)
                   THEN One
                   ELSE [num |-> ClipSq.num * GradUnit * GradUnit,
                         den |-> ClipSq.den * grads[v] * grads[v]]]]

\* tf.clip_by_global_norm: every gradient times
\* clip_norm * min(1 / global_norm, 1 / clip_norm); scale_sq is the square of
\* that factor
clip_by_global_norm(grads) ==
  LET scale_sq == IF RatLeq(GlobalNormSq(grads), ClipSq)
                  THEN One
                  ELSE [num |-> ClipSq.num * GlobalNormSq(grads).den,
                        den |-> ClipSq.den * GlobalNormSq(grads).num]
  IN [v \in DOMAIN grads |-> [g |-> grads[v], scale_sq |-> scale_sq]]

\* optimizer.apply_gradients: RMSProp moves every variable against the sign of
\* its (clipped) gradient
apply_gradients(clipped) == [v \in DOMAIN kernel |-> kernel[v] - Sgn(clipped[v].g)]

\* variant: the running statistics are updated whatever the mode
AssignMovingAverageAlways(variable, value, training) ==
  variable - ((variable - value) \div 100)

\* the update op of a batch-normalisation layer: with momentum 0.99 the
\* running mean moves a hundredth of the way to the batch mean, and only in
\* training mode
AssignMovingAverage(variable, value, training) ==
  IF training THEN variable - ((variable - value) \div 100) ELSE variable

\* tf.nn.tanh of a sample given in halves, in halves
TanhHalves(x) == Clamp(x, -2, 2)

\* _generate_bounded_continuous_sample_action: tanh, then the affine map built
\* from ac_space.high[0] and ac_space.low[0]; the result is in quarters
generate_bounded_continuous_sample_action(sample, ac_space) ==
  [d \in DOMAIN sample |->
     TanhHalves(sample[d]) * (ac_space.high[1] - ac_space.low[1])
       + 2 * (ac_space.high[1] + ac_space.low[1])]

\* sample_act for a batch: noise[i] is the draw of sample i (the action index
\* for the categorical, the per-dimension deviate in halves for the Gaussian)
sample_act(obs, is_training, noise) ==
  LET h == hidden(obs, is_training)
  IN [i \in DOMAIN h |->
        IF discrete THEN noise[i]
        ELSE generate_bounded_continuous_sample_action(
               [d \in 1 .. act_dim |-> 2 * act_mean(h[i])[d] + noise[i][d]], act_space)]

(***************************************************************************)
(* sess.run.  A run evaluates the fetched tensors; the only fetch with     *)
(* stateful dependencies is train_op, built by                             *)
(* _train_with_batch_norm_update: the UPDATE_OPS collection first (control *)
(* dependency), then apply_gradients on the clipped gradients of           *)
(* total_loss.  pc walks through the stateful ops of the run in flight.    *)
(***************************************************************************)
StatefulOps(fetches) ==
  IF "train_op" \in fetches
  THEN <<"update_ops", "compute_gradients", "apply_gradients">>
  ELSE IF "update_ops" \in fetches THEN <<"update_ops">> ELSE <<>>

NextPc(todo) == IF todo = <<>> THEN "return" ELSE Head(todo)

\* the loss tensors need the act, adv and val placeholders
LossFetches == {"train_op", "actor_pg_loss", "critic_loss", "reg_loss", "summaries"}

\* advantages = returns - values, on numpy arrays of shape [., 1]
advantages(returns, values) ==
  [i \in 1 .. BroadcastLen(Len(returns), Len(values)) |-> At(returns, i) - At(values, i)]

\* the feed_dict and the fetch list of each closure
actor_run(observation) ==
  [feed |-> [obs |-> observation, is_training |-> FALSE],
   fetches |-> {"sample_act"}]

critic_run(observations) ==
  [feed |-> [obs |-> observations, is_training |-> FALSE],
   fetches |-> {"critic_pred"}]

\* variant: step run in training mode together with the update ops
step_run_with_updates(observations) ==
  [feed |-> [obs |-> observations, is_training |-> TRUE],
   fetches |-> {"sample_act", "critic_pred", "update_ops"}]

step_run(observations) ==
  [feed |-> [obs |-> observations, is_training |-> FALSE],
   fetches |-> {"sample_act", "critic_pred"}]

train_run(observations, returns, actions, values) ==
  [feed |-> [obs |-> observations, val |-> returns,
             adv |-> advantages(returns, values), act |-> actions,
             is_training |-> TRUE],
   fetches |-> {"train_op", "actor_pg_loss", "critic_loss", "reg_loss"}]

summarize_run(observations, returns, actions, values) ==
  [feed |-> [obs |-> observations, val |-> values,
             adv |-> advantages(returns, values), act |-> actions,
             is_training |-> FALSE],
   fetches |-> {"train_op", "summaries"}]

\* no result yet: the call is in flight
Pending(op) == [op |-> op, status |-> "running", ran |-> <<>>]

\* entering sess.run
SessRun(op, run, args) ==
  /\ call' = [op |-> op, feed |-> run.feed, fetches |-> run.fetches, args |-> args,
              todo |-> StatefulOps(run.fetches), ran |-> <<>>, out |-> <<>>]
  /\ pc' = NextPc(StatefulOps(run.fetches))
  /\ ret' = Pending(op)
  /\ UNCHANGED <<discrete, cnn, act_space, params, train_calls, stat_updates>>

\* the initial values of the variables: tf.global_variables_initializer()
InitKernel == 1
InitialKernel(d, c) == [k \in Kernels(d, c) |-> InitKernel]
InitialMovingMean(c) == [l \in BatchNormLayers(c) |-> 0]

(***************************************************************************)
(* The facade.                                                             *)
(***************************************************************************)
reset ==
  /\ pc = "idle"
  /\ kernel' = InitialKernel(discrete, cnn)
  /\ moving_mean' = InitialMovingMean(cnn)
  /\ global_step' = 0
  /\ train_calls' = 0
  /\ stat_updates' = 0
  /\ ret' = [op |-> "reset", status |-> "ok", ran |-> <<>>]
  /\ UNCHANGED <<discrete, cnn, act_space, pc, call>>

actor(observation) ==
  /\ pc = "idle"
  /\ SessRun("actor", actor_run(observation), <<observation>>)

critic(observations) ==
  /\ pc = "idle"
  /\ SessRun("critic", critic_run(observations), <<observations>>)

step(observations) ==
  /\ pc = "idle"
  /\ SessRun("step", step_run(observations), <<observations>>)

\* returns - values raises before sess.run when the two do not broadcast
train(observations, returns, actions, values) ==
  /\ pc = "idle"
  /\ global_step < MaxSteps
  /\ stat_updates < MaxSteps
  /\ IF Broadcastable(Len(returns), Len(values))
     THEN SessRun("train", train_run(observations, returns, actions, values),
                  <<observations, returns, actions, values>>)
     ELSE /\ ret' = [op |-> "train", status |-> "ValueError", ran |-> <<>>]
          /\ UNCHANGED <<discrete, cnn, act_space, params, pc, call, train_calls,
                         stat_updates>>

summarize(observations, returns, actions, values) ==
  /\ pc = "idle"
  /\ global_step < MaxSteps
  /\ IF Broadcastable(Len(returns), Len(values))
     THEN SessRun("summarize", summarize_run(observations, returns, actions, values),
                  <<observations, returns, actions, values>>)
     ELSE /\ ret' = [op |-> "summarize", status |-> "ValueError", ran |-> <<>>]
          /\ UNCHANGED <<discrete, cnn, act_space, params, pc, call, train_calls,
                         stat_updates>>

(***************************************************************************)
(* The stateful ops of the run in flight.                                  *)
(***************************************************************************)
Advance ==
  /\ pc' = NextPc(Tail(call.todo))
  /\ UNCHANGED <<discrete, cnn, act_space, ret, train_calls>>

\* the UPDATE_OPS collection: one moving-average update per
\* batch-normalisation layer, on the batch of this run
update_ops ==
  /\ pc = "update_ops"
  /\ moving_mean' = [l \in DOMAIN moving_mean |->
                       AssignMovingAverage(moving_mean[l],
                                           batch_means(call.feed.obs)[l],
                                           call.feed.is_training)]
  /\ stat_updates' = IF call.feed.is_training THEN stat_updates + 1 ELSE stat_updates
  /\ call' = [call EXCEPT !.todo = Tail(@), !.ran = Append(@, "update_ops")]
  /\ Advance
  /\ UNCHANGED <<kernel, global_step>>

\* the forward pass of the losses, optimizer.compute_gradients(total_loss)
\* and _clip_by_global_norm; grads is the gradient of total_loss
compute_gradients(grads) ==
  /\ pc = "compute_gradients"
  /\ ~ GraphShapeError(call.feed)
  /\ call' = [call EXCEPT
       !.todo = Tail(@),
       !.ran = Append(@, "compute_gradients"),
       !.out = [actor_pg_loss |->
                  actor_pg_loss(log_prob(call.feed.obs, call.feed.act,
                                         call.feed.is_training), call.feed.adv),
                critic_loss |->
                  critic_loss(critic_pred(call.feed.obs, call.feed.is_training),
                              call.feed.val),
                reg_loss |-> reg_loss,
                grads |-> grads,
                clipped |-> clip_by_global_norm(grads)]]
  /\ Advance
  /\ UNCHANGED <<params, stat_updates>>

\* optimizer.apply_gradients(grads_and_vars, global_step=global_step)
apply_gradients_op ==
  /\ pc = "apply_gradients"
  /\ kernel' = apply_gradients(call.out.clipped)
  /\ global_step' = global_step + 1
  /\ call' = [call EXCEPT !.todo = Tail(@), !.ran = Append(@, "apply_gradients"),
                          !.out = [actor_pg_loss |-> @.actor_pg_loss,
                                   critic_loss |-> @.critic_loss,
                                   reg_loss |-> @.reg_loss]]
  /\ Advance
  /\ UNCHANGED <<moving_mean, stat_updates>>

\* an op of the loss raises InvalidArgumentError (incompatible shapes); it is
\* not ordered with the update ops, which may or may not have run
raise_invalid_argument ==
  /\ pc \in {"update_ops", "compute_gradients"}
  /\ call.fetches \cap LossFetches # {}
  /\ GraphShapeError(call.feed)
  /\ ret' = [op |-> call.op, status |-> "InvalidArgumentError", ran |-> call.ran]
  /\ pc' = "idle"
  /\ call' = NoCall
  /\ UNCHANGED <<discrete, cnn, act_space, params, train_calls, stat_updates>>

\* the draws of dist.sample() for a batch of n observations
Noise(n, samples) ==
  IF discrete THEN [1 .. n -> 0 .. (act_dim - 1)]
  ELSE [1 .. n -> [1 .. act_dim -> samples]]

\* sess.run returns the fetched values
return(samples) ==
  /\ pc = "return"
  /\ \E noise \in (IF "sample_act" \in call.fetches
                   THEN Noise(Len(call.feed.obs), samples) ELSE {<<>>}) :
       ret' = [op |-> call.op, status |-> "ok", ran |-> call.ran,
             out |-> IF "train_op" \in call.fetches
                     THEN [pg_loss |-> call.out.actor_pg_loss,
                           val_loss |-> call.out.critic_loss,
                           reg_loss |-> call.out.reg_loss]
                     ELSE [actions |-> IF "sample_act" \in call.fetches
                                       THEN sample_act(call.feed.obs, call.feed.is_training, noise)
                                       ELSE <<>>,
                           values |-> IF "critic_pred" \in call.fetches
                                      THEN critic_pred(call.feed.obs, call.feed.is_training)
                                      ELSE <<>>]]
  /\ train_calls' = IF call.op = "train" THEN train_calls + 1 ELSE train_calls
  /\ pc' = "idle"
  /\ call' = NoCall
  /\ UNCHANGED <<discrete, cnn, act_space, params, stat_updates>>

(***************************************************************************)
(* Inputs.                                                                 *)
(***************************************************************************)
NumActions == 2   \* gym.spaces.Discrete(NumActions)
BoxDim == 2       \* gym.spaces.Box of shape (BoxDim,)

Boxes ==
  {[low |-> l, high |-> h] : l \in [1 .. BoxDim -> -1 .. 0],
                             h \in [1 .. BoxDim -> 1 .. MaxBound]}

\* the Box [-1, 1] in every dimension
OneBox == {[low |-> [d \in 1 .. BoxDim |-> -1], high |-> [d \in 1 .. BoxDim |-> 1]]}

ActSpaces(d, boxes) == IF d THEN {[n |-> NumActions]} ELSE boxes

BatchesOf(S, maxn) == UNION {[1 .. n -> S] : n \in 1 .. maxn}

\* observation batches of every length, with fixed contents
ObsBatches == {[i \in 1 .. n |-> i % (MaxObs + 1)] : n \in 1 .. MaxN}

\* observation batches with any contents
ShortObsBatches == BatchesOf(0 .. MaxObs, MaxAligned)

\* one action of a training batch
ActionVals == IF discrete THEN 0 .. (NumActions - 1)
              ELSE [1 .. BoxDim -> 0 .. 1]

ZeroAction == IF discrete THEN 0 ELSE [d \in 1 .. BoxDim |-> 0]

\* the lengths of the arguments of a training call: a single transition,
\* a short batch and a full batch
Lengths == {1, 2, MaxN}

\* training batches of any four lengths, with fixed contents
LengthBatches ==
  {[observations |-> [i \in 1 .. no |-> MaxObs],
    returns |-> [i \in 1 .. nr |-> MaxTarget],
    actions |-> [i \in 1 .. na |-> ZeroAction],
    values |-> [i \in 1 .. nv |-> 0]] :
     no \in Lengths, nr \in Lengths, na \in Lengths, nv \in Lengths}

\* training batches of four equal lengths, with any contents
AlignedBatches ==
  UNION {[observations : [1 .. n -> 0 .. MaxObs],
          returns : [1 .. n -> 0 .. MaxTarget],
          actions : [1 .. n -> ActionVals],
          values : [1 .. n -> 0 .. MaxTarget]] : n \in 1 .. MaxAligned}

\* one training batch and one observation batch
OneBatch ==
  [observations |-> <<0, 1>>, returns |-> <<1, 0>>,
   actions |-> <<ZeroAction, ZeroAction>>, values |-> <<0, 0>>]

\* gradients of total_loss: one component per trainable kernel
AllGrads == [Kernels(discrete, cnn) -> {-1, 0, MaxGrad}]

\* the zero gradient and one gradient that moves every kernel
DenseGrads == {[v \in Kernels(discrete, cnn) |-> c] : c \in {0, MaxGrad}}

Samples == -MaxSample .. MaxSample

InitWith(variants, cnns, boxes) ==
  /\ discrete \in variants
  /\ cnn \in cnns
  /\ act_space \in ActSpaces(discrete, boxes)
  /\ kernel = InitialKernel(discrete, cnn)
  /\ moving_mean = InitialMovingMean(cnn)
  /\ global_step = 0
  /\ pc = "idle"
  /\ call = NoCall
  /\ ret = [op |-> "reset", status |-> "ok", ran |-> <<>>]
  /\ train_calls = 0
  /\ stat_updates = 0

(***************************************************************************)
(* Spec: the facade protocol, every variant of the network, training       *)
(* batches whose four arguments take every combination of Lengths.         *)
(***************************************************************************)
Init == InitWith(BOOLEAN, BOOLEAN, OneBox)

Next ==
  \/ reset
  \/ \E o \in ObsBatches : actor(o)
  \/ \E o \in ObsBatches : critic(o)
  \/ \E o \in ObsBatches : step(o)
  \/ \E b \in LengthBatches : train(b.observations, b.returns, b.actions, b.values)
  \/ \E b \in LengthBatches : summarize(b.observations, b.returns, b.actions, b.values)
  \/ update_ops
  \/ \E g \in DenseGrads : compute_gradients(g)
  \/ apply_gradients_op
  \/ raise_invalid_argument
  \/ return({0})

Spec == Init /\ [][Next]_vars

TypeOK ==
  /\ pc \in {"idle", "update_ops", "compute_gradients", "apply_gradients", "return"}
  /\ global_step \in 0 .. MaxSteps
  /\ DOMAIN kernel = Kernels(discrete, cnn)
  /\ DOMAIN moving_mean = BatchNormLayers(cnn)

(***************************************************************************)
(* SpecLoss: the losses on training batches of equal lengths and every     *)
(* content, on the dense trunk.  No op raises on such batches.             *)
(***************************************************************************)
InitLoss == InitWith(BOOLEAN, {FALSE}, OneBox)

NextLoss ==
  \/ reset
  \/ actor(OneBatch.observations)
  \/ critic(OneBatch.observations)
  \/ step(OneBatch.observations)
  \/ \E b \in AlignedBatches : train(b.observations, b.returns, b.actions, b.values)
  \/ \E b \in AlignedBatches : summarize(b.observations, b.returns, b.actions, b.values)
  \/ update_ops
  \/ \E g \in DenseGrads : compute_gradients(g)
  \/ apply_gradients_op
  \/ return({0})

SpecLoss == InitLoss /\ [][NextLoss]_vars

(***************************************************************************)
(* SpecClip: every gradient vector over the kernels of the dense trunk     *)
(* with the categorical head.                                              *)
(***************************************************************************)
InitClip == InitWith({TRUE}, {FALSE}, OneBox)

NextClip ==
  \/ reset
  \/ actor(OneBatch.observations)
  \/ critic(OneBatch.observations)
  \/ step(OneBatch.observations)
  \/ train(OneBatch.observations, OneBatch.returns, OneBatch.actions, OneBatch.values)
  \/ summarize(OneBatch.observations, OneBatch.returns, OneBatch.actions, OneBatch.values)
  \/ update_ops
  \/ \E g \in AllGrads : compute_gradients(g)
  \/ apply_gradients_op
  \/ return({0})

SpecClip == InitClip /\ [][NextClip]_vars

(***************************************************************************)
(* SpecSample: every Box and every draw of the action distribution.        *)
(***************************************************************************)
InitSample == InitWith(BOOLEAN, {FALSE}, Boxes)

NextSample ==
  \/ reset
  \/ \E o \in ShortObsBatches : actor(o)
  \/ \E o \in ShortObsBatches : critic(o)
  \/ \E o \in ShortObsBatches : step(o)
  \/ train(OneBatch.observations, OneBatch.returns, OneBatch.actions, OneBatch.values)
  \/ summarize(OneBatch.observations, OneBatch.returns, OneBatch.actions, OneBatch.values)
  \/ update_ops
  \/ \E g \in DenseGrads : compute_gradients(g)
  \/ apply_gradients_op
  \/ return(Samples)

SpecSample == InitSample /\ [][NextSample]_vars

(***************************************************************************)
(* Properties.                                                             *)
(***************************************************************************)
Returned(op) == pc = "idle" /\ ret.op = op /\ ret.status = "ok"

\* the four arguments of the train or summarize call in flight
ArgLens == {Len(call.args[i]) : i \in 1 .. 4}
Aligned == Cardinality(ArgLens) = 1

\* the losses of the run in flight are evaluated and its update not yet applied
Evaluated(op) == pc = "apply_gradients" /\ call.op = op

\* C1: the policy-gradient loss of a train call on N aligned transitions is
\* the mean over i of -log_prob(action_i) * (returns_i - values_i): no
\* log-probability meets the advantage of another transition.
AlignedPgLoss ==
  LET lp == log_prob(call.args[1], call.args[3], TRUE)
      N == Len(call.args[1])
  IN [num |-> SumSeq([i \in 1 .. N |->
                        (- lp[i]) * (call.args[2][i] - call.args[4][i])]),
      den |-> N]

C1_PgLossIndexAligned ==
  (Evaluated("train") /\ Aligned) => RatEq(call.out.actor_pg_loss, AlignedPgLoss)

\* C2: while an actor, critic or step call runs, the kernels, the running
\* statistics and the global step do not change.
InferenceOps == {"actor", "critic", "step"}

C2_InferenceLeavesParameters ==
  [][(call.op \in InferenceOps \/ call'.op \in InferenceOps) => UNCHANGED params]_vars

C2_Witness ==
  /\ Returned("step")
  /\ global_step > 0
  /\ kernel # InitialKernel(discrete, cnn)
  /\ moving_mean # InitialMovingMean(cnn)
  /\ Len(ret.out.actions) > 1

\* C3: every action returned by actor or step for a Box lies within the
\* bounds of its own dimension (actions are in quarters).
C3_ActionsWithinBounds ==
  ((Returned("actor") \/ Returned("step")) /\ ~ discrete) =>
    \A i \in DOMAIN ret.out.actions : \A d \in 1 .. BoxDim :
      /\ 4 * act_space.low[d] <= ret.out.actions[i][d]
      /\ ret.out.actions[i][d] <= 4 * act_space.high[d]

\* C4: between calls the global step equals the number of train calls since
\* the last reset.
C4_StepCountsTrainCalls == (pc = "idle") => (global_step = train_calls)

\* C5: the gradient handed to apply_gradients has a global norm of at most
\* the clip norm; it is the raw gradient when the raw norm is within the clip
\* norm, and otherwise every component is scaled by clip_norm / global_norm.
ClippedNormSq(clipped) ==
  LET names == CHOOSE q \in [1 .. Cardinality(DOMAIN clipped) -> DOMAIN clipped] :
                 \A v \in DOMAIN clipped : \E i \in DOMAIN q : q[i] = v
  IN RatSum([i \in DOMAIN names |->
               [num |-> clipped[names[i]].g * clipped[names[i]].g
                          * clipped[names[i]].scale_sq.num,
                den |-> clipped[names[i]].scale_sq.den]])

\* the clip norm squared, in the unit of the gradient components squared
ClipSqUnits == [num |-> ClipSq.num * GradUnit * GradUnit, den |-> ClipSq.den]

C5_ClippedGlobalNorm ==
  (pc = "apply_gradients") =>
    LET g == call.out.grads
        c == call.out.clipped
        raw == [num |-> SumSquares(g), den |-> 1]
    IN /\ RatLeq(ClippedNormSq(c), ClipSqUnits)
       /\ \A v \in DOMAIN c : c[v].g = g[v]
       /\ RatLeq(raw, ClipSqUnits) => \A v \in DOMAIN c : RatEq(c[v].scale_sq, One)
       /\ ~ RatLeq(raw, ClipSqUnits) =>
            \A v \in DOMAIN c :
              RatEq(c[v].scale_sq, [num |-> ClipSqUnits.num, den |-> ClipSqUnits.den * raw.num])

C5_Witness ==
  /\ pc = "apply_gradients"
  /\ call.op = "train"
  /\ ~ RatLeq([num |-> SumSquares(call.out.grads), den |-> 1], ClipSqUnits)
  /\ \E v, w \in DOMAIN call.out.grads :
       /\ call.out.grads[v] < 0
       /\ call.out.grads[w] > 0

\* C6: a run fed is_training=False (actor, critic, step, summarize) leaves
\* every running mean unchanged, and a train call that returns has run the
\* update ops in training mode.
C6_StatisticsOnlyInTraining ==
  [][/\ (call.op # "none" /\ ~ call.feed.is_training) => UNCHANGED moving_mean
     /\ (pc = "update_ops" /\ pc' = "compute_gradients" /\ call.op = "train") =>
          moving_mean' = [l \in DOMAIN moving_mean |->
                            moving_mean[l]
                              - ((moving_mean[l] - batch_means(call.feed.obs)[l]) \div 100)]
     /\ (ret'.op = "train" /\ ret'.status = "ok") =>
          \E i \in DOMAIN ret'.ran : ret'.ran[i] = "update_ops"]_vars

C6_Witness ==
  /\ Returned("summarize")
  /\ \E l \in DOMAIN moving_mean : moving_mean[l] # 0
  /\ kernel # InitialKernel(discrete, cnn)

\* C7: a train call ends with both the running statistics and the weights
\* updated, the statistics first, or with neither updated.
Ran(op) == \E i \in DOMAIN ret.ran : ret.ran[i] = op

C7_StatisticsWithWeights ==
  (pc = "idle" /\ ret.op = "train") =>
    /\ Ran("update_ops") <=> Ran("apply_gradients")
    /\ Ran("apply_gradients") =>
         \E i, j \in DOMAIN ret.ran : /\ i < j
                                      /\ ret.ran[i] = "update_ops"
                                      /\ ret.ran[j] = "apply_gradients"

\* C8: a train call whose four arguments do not share one length raises, and
\* no parameter changes while it runs.
C8_MismatchRaises ==
  [][(call.op = "train" /\ ~ Aligned) => (pc' # "return" /\ UNCHANGED params)]_vars

\* C9: the regularisation loss is reg_coeff times the sum of the L2
\* penalties of every dense and convolution kernel.
AllKernelsRegLoss ==
  [num |-> RegCoeffNum * SumOver(Kernels(discrete, cnn),
                                 [k \in Kernels(discrete, cnn) |-> l2_loss_twice(kernel[k])]),
   den |-> 2 * RegCoeffDen]

C9_RegLossCoversEveryKernel ==
  Evaluated("train") => call.out.reg_loss = AllKernelsRegLoss

\* C10: summarize reports the critic loss against the returns, as train
\* does: mean((critic_pred - returns)^2) / 2.
C10_SummarizeCriticTarget ==
  (Evaluated("summarize") /\ Aligned) =>
    /\ call.feed.adv = advantages(call.args[2], call.args[4])
    /\ RatEq(call.out.critic_loss,
             critic_loss(critic_pred(call.args[1], FALSE), call.args[2]))

====
